---- MODULE Spec2Model ----
(***************************************************************************)
(* Model of message_ix_models.tools.costs.projections                      *)
(* (get_cost_projections, create_message_inputs) and of                    *)
(* message_ix_models.model.water.data.add_data.                            *)
(*                                                                         *)
(* Python strings that the code upper-cases are sequences of one-character *)
(* strings, so that str.upper() is a computation and not the identity.     *)
(* Dataframes are sequences of row records (order and duplicates kept).    *)
(***************************************************************************)
EXTENDS Integers, Sequences, FiniteSets, TLC

VARIABLES
    \* ---- get_cost_projections ----
    pc,              \* position in get_cost_projections
    call_args,       \* the arguments the call in progress was made with
    node_up,         \* local node_up (line 38)
    sel_ref_region,  \* parameter sel_ref_region, rebound at lines 49-57
    dfs,             \* locals df_region_diff, df_ref_reg_learning, ...
    calls,           \* stage invocations made by the call in progress, in order
    result,          \* what the call in progress returned
    prev,            \* arguments and observations of the call before it
    \* ---- create_message_inputs ----
    mpc,             \* position in create_message_inputs
    df_proj,         \* argument df_proj
    combos,          \* product(un_vers, un_scen, un_tech, un_reg), line 126
    done,            \* number of combinations the loop has finished
    l_inv,           \* local l_inv
    l_fix,           \* local l_fix
    msg_inv,         \* returned msg_inv
    msg_fom,         \* returned msg_fom
    \* ---- water add_data ----
    wpc,             \* position in add_data
    context,         \* argument context (nexus_set, type_reg, "water build info")
    dry_run,         \* argument dry_run
    data_funcs,      \* local data_funcs
    func_calls,      \* the data functions called so far, in order
    scenario         \* the add_par_data calls the scenario has received

projVars == <<pc, call_args, node_up, sel_ref_region, dfs, calls, result, prev>>

inputsVars == <<mpc, df_proj, combos, done, l_inv, l_fix, msg_inv, msg_fom>>

waterVars == <<wpc, context, dry_run, data_funcs, func_calls, scenario>>

vars == <<projVars, inputsVars, waterVars>>

-----------------------------------------------------------------------------
(* Strings *)

\* str.upper() on one character (the letters that occur in the inputs)
UpperChar(c) ==
    CASE c = "r" -> "R"
      [] c = "n" -> "N"
      [] c = "a" -> "A"
      [] c = "m" -> "M"
      [] c = "w" -> "W"
      [] c = "e" -> "E"
      [] c = "u" -> "U"
      [] OTHER -> c

\* str.upper()
Upper(s) == [i \in 1..Len(s) |-> UpperChar(s[i])]

\* Python None (no string over one-character elements equals it)
None == <<"None">>

R11 == <<"R", "1", "1">>
R12 == <<"R", "1", "2">>
R20 == <<"R", "2", "0">>
R11_NAM == <<"R", "1", "1", "_", "N", "A", "M">>
R12_NAM == <<"R", "1", "2", "_", "N", "A", "M">>
R20_NAM == <<"R", "2", "0", "_", "N", "A", "M">>

\* module constants imported from message_ix_models.tools.costs.config
BASE_YEAR == 2021
LAST_MODEL_YEAR == 2100

-----------------------------------------------------------------------------
(* get_cost_projections *)

\* values of sel_node the entry point is called with
NodeInputs ==
    { <<"r", "1", "1">>, R11, <<"r", "1", "2">>, R12, R20,
      <<"R", "9", "9">>, <<"r", "9", "9">>, <<>> }

\* values of sel_ref_region the entry point is called with
RefInputs ==
    { None, <<"R", "1", "1", "_", "W", "E", "U">>,
      <<"r", "1", "1", "_", "w", "e", "u">> }

\* the remaining keyword arguments: the defaults of the signature (lines
\* 30-35), and one call that overrides them
DefaultArgs ==
    [sel_base_year |-> BASE_YEAR, sel_scenario_version |-> "updated",
     sel_scenario |-> "all", sel_method |-> "convergence",
     sel_convergence_year |-> 2050, sel_format |-> "message"]

OtherArgs ==
    { DefaultArgs,
      [sel_base_year |-> 2025, sel_scenario_version |-> "review",
       sel_scenario |-> "ssp2", sel_method |-> "gdp",
       sel_convergence_year |-> 2060, sel_format |-> "message"] }

CallInputs ==
    { [sel_node |-> n, sel_ref_region |-> r, other |-> a] :
        n \in NodeInputs, r \in RefInputs, a \in OtherArgs }

\* ValidNodes with one more code let through
ValidNodesWithR99 == {R11, R12, R20, <<"R", "9", "9">>}

\* the list the selection is validated against (line 41)
ValidNodes == {R11, R12, R20}

\* DefaultRefRegion with the R12 branch assigning the R11 default
DefaultRefRegionR12AsR11(n) ==
    LET r1 == IF n = R11 THEN R11_NAM ELSE None
        r2 == IF n = R12 THEN R11_NAM ELSE r1
        r3 == IF n = R20 THEN R20_NAM ELSE r2
    IN  r3

\* lines 50-55: three independent ifs over node_up
DefaultRefRegion(n) ==
    LET r1 == IF n = R11 THEN R11_NAM ELSE None
        r2 == IF n = R12 THEN R12_NAM ELSE r1
        r3 == IF n = R20 THEN R20_NAM ELSE r2
    IN  r3

\* lines 49-57: sel_ref_region after defaulting
ResolveRefRegion(n, ref) ==
    IF ref = None THEN DefaultRefRegion(n) ELSE Upper(ref)

\* the value given to the stages as input_node (lines 69, 76, 83)
StageNode(node, up) == node

\* Stages with the GDP-ratio adjuster called before the learning-rate
\* projector
StagesGdpFirst ==
    << [name |-> "get_weo_region_differentiated_costs", takes_config |-> TRUE,
        inputs |-> <<>>, output |-> "df_region_diff"],
       [name |-> "calculate_gdp_adjusted_region_cost_ratios",
        takes_config |-> TRUE,
        inputs |-> <<"df_region_diff">>, output |-> "df_adj_cost_ratios"],
       [name |-> "project_ref_region_inv_costs_using_learning_rates",
        takes_config |-> TRUE,
        inputs |-> <<"df_region_diff">>, output |-> "df_ref_reg_learning"],
       [name |-> "project_all_inv_costs", takes_config |-> FALSE,
        inputs |-> <<"df_region_diff", "df_ref_reg_learning",
                     "df_adj_cost_ratios">>,
        output |-> "df_all_inv"],
       [name |-> "get_final_inv_and_fom_costs", takes_config |-> FALSE,
        inputs |-> <<"df_all_inv">>, output |-> "df_inv_fom"] >>

\* the stages in the order the body calls them (lines 68-97), each with the
\* locals it is given and the local its result is bound to
Stages ==
    << [name |-> "get_weo_region_differentiated_costs", takes_config |-> TRUE,
        inputs |-> <<>>, output |-> "df_region_diff"],
       [name |-> "project_ref_region_inv_costs_using_learning_rates",
        takes_config |-> TRUE,
        inputs |-> <<"df_region_diff">>, output |-> "df_ref_reg_learning"],
       [name |-> "calculate_gdp_adjusted_region_cost_ratios",
        takes_config |-> TRUE,
        inputs |-> <<"df_region_diff">>, output |-> "df_adj_cost_ratios"],
       [name |-> "project_all_inv_costs", takes_config |-> FALSE,
        inputs |-> <<"df_region_diff", "df_ref_reg_learning",
                     "df_adj_cost_ratios">>,
        output |-> "df_all_inv"],
       [name |-> "get_final_inv_and_fom_costs", takes_config |-> FALSE,
        inputs |-> <<"df_all_inv">>, output |-> "df_inv_fom"] >>

\* the local whose value the call returns (line 99)
ReturnedLocal == "df_inv_fom"

ErrorString == "Please select a valid spatial resolution: R11, R12, or R20"

Locals ==
    {"df_region_diff", "df_ref_reg_learning", "df_adj_cost_ratios",
     "df_all_inv", "df_inv_fom"}

Unbound == [producer |-> "unbound", seq |-> 0]

NoDfs == [l \in Locals |-> Unbound]

NoResult == [kind |-> "none", str |-> "", df |-> Unbound]

NoCall == [made |-> FALSE]

\* the values the stages called so far were given as input_node
NodesHanded ==
    { calls[i].config[1] : i \in { j \in 1..Len(calls) : calls[j].config # <<>> } }

\* the values the stages called so far were given as input_ref_region
RefsHanded ==
    { calls[i].config[2] : i \in { j \in 1..Len(calls) : calls[j].config # <<>> } }

\* the arguments of the call in progress and what a caller and the stages
\* have seen of it
Observation ==
    [made |-> TRUE, call_args |-> call_args,
     rejected |-> (result.kind = "str"),
     nodes |-> NodesHanded, refs |-> RefsHanded]

InitProj ==
    /\ pc = "idle"
    /\ call_args = [sel_node |-> <<>>, sel_ref_region |-> None,
                    other |-> DefaultArgs]
    /\ node_up = None
    /\ sel_ref_region = None
    /\ dfs = NoDfs
    /\ calls = <<>>
    /\ result = NoResult
    /\ prev = NoCall

\* a caller invokes get_cost_projections(sel_node, sel_ref_region, ...)
Call ==
    /\ pc \in {"idle", "returned", "raised"}
    /\ \E a \in CallInputs :
          /\ call_args' = a
          /\ sel_ref_region' = a.sel_ref_region
    /\ prev' = IF pc = "idle" THEN NoCall ELSE Observation
    /\ pc' = "called"
    /\ node_up' = None
    /\ dfs' = NoDfs
    /\ calls' = <<>>
    /\ result' = NoResult
    /\ UNCHANGED <<inputsVars, waterVars>>

\* lines 38-42: upper-case the selection; an unsupported one returns the
\* message
RejectNode ==
    /\ pc = "called"
    /\ Upper(call_args.sel_node) \notin ValidNodes
    /\ node_up' = Upper(call_args.sel_node)
    /\ result' = [kind |-> "str", str |-> ErrorString, df |-> Unbound]
    /\ pc' = "returned"
    /\ UNCHANGED <<call_args, sel_ref_region, dfs, calls, prev>>
    /\ UNCHANGED <<inputsVars, waterVars>>

\* lines 38-66: upper-case the selection, it is supported; default or
\* upper-case the reference region (the prints leave no state)
AcceptNode ==
    /\ pc = "called"
    /\ Upper(call_args.sel_node) \in ValidNodes
    /\ node_up' = Upper(call_args.sel_node)
    /\ sel_ref_region' = ResolveRefRegion(Upper(call_args.sel_node), sel_ref_region)
    /\ pc' = "stage"
    /\ UNCHANGED <<call_args, dfs, calls, result, prev>>
    /\ UNCHANGED <<inputsVars, waterVars>>

\* the stage the body calls next
NextStage == Stages[Len(calls) + 1]

\* the invocation of the next stage, as the callee sees it
Invocation(st) ==
    [stage |-> st.name,
     config |-> IF st.takes_config
                THEN <<StageNode(call_args.sel_node, node_up), sel_ref_region,
                       call_args.other.sel_base_year>>
                ELSE <<>>,
     inputs |-> [i \in 1..Len(st.inputs) |-> dfs[st.inputs[i]]]]

\* lines 68-97: the next stage is called and returns a new dataframe, bound
\* to its local
RunStage ==
    /\ pc = "stage"
    /\ Len(calls) < Len(Stages)
    /\ calls' = Append(calls, Invocation(NextStage))
    /\ dfs' = [dfs EXCEPT ![NextStage.output] =
                  [producer |-> NextStage.name, seq |-> Len(calls) + 1]]
    /\ UNCHANGED <<pc, call_args, node_up, sel_ref_region, result, prev>>
    /\ UNCHANGED <<inputsVars, waterVars>>

\* the next stage is called and raises (a lookup or indexing failure inside
\* it); the exception propagates to the caller
StageRaises ==
    /\ pc = "stage"
    /\ Len(calls) < Len(Stages)
    /\ calls' = Append(calls, Invocation(NextStage))
    /\ pc' = "raised"
    /\ UNCHANGED <<call_args, node_up, sel_ref_region, dfs, result, prev>>
    /\ UNCHANGED <<inputsVars, waterVars>>

\* line 99: return df_inv_fom
Return ==
    /\ pc = "stage"
    /\ Len(calls) = Len(Stages)
    /\ result' = [kind |-> "DataFrame", str |-> "", df |-> dfs[ReturnedLocal]]
    /\ pc' = "returned"
    /\ UNCHANGED <<call_args, node_up, sel_ref_region, dfs, calls, prev>>
    /\ UNCHANGED <<inputsVars, waterVars>>

-----------------------------------------------------------------------------
(* create_message_inputs *)

HORIZON_START == 1960
HORIZON_END == 2110

\* literals of the body: the step of seq_years (line 135), the year whose
\* value fills the historical years (line 147), the year whose value fills
\* the years after the last model year (line 153), the year up to which the
\* fixed cost is taken as given (lines 199-202, 212), the end of the decay
\* table (line 205)
SEQ_STEP == 5
HIST_VALUE_YEAR == 2020
FUT_VALUE_YEAR == 2100
FOM_GIVEN_UNTIL == 2020
DECAY_RANGE_END == 2111

\* range(a, b, st)
Range(a, b, st) ==
    IF b <= a THEN <<>>
    ELSE [i \in 1..((b - a + st - 1) \div st) |-> a + (i - 1) * st]

\* pd.concat of a list of dataframes
RECURSIVE Concat(_)
Concat(l) == IF l = <<>> THEN <<>> ELSE Head(l) \o Concat(Tail(l))

\* Series.unique(): the values in order of first appearance
Unique(col) ==
    LET firsts == { n \in 1..Len(col) : \A m \in 1..(n - 1) : col[m] # col[n] }
    IN  [k \in 1..Cardinality(firsts) |->
            col[CHOOSE n \in firsts : Cardinality({ m \in firsts : m < n }) = k - 1]]

Column(df, c) == [n \in 1..Len(df) |-> df[n][c]]

\* itertools.product of four sequences, the last varying fastest
Product(a, b, c, d) ==
    [n \in 1..(Len(a) * Len(b) * Len(c) * Len(d)) |->
        LET m == n - 1
        IN  << a[(m \div (Len(b) * Len(c) * Len(d))) + 1],
               b[((m \div (Len(c) * Len(d))) % Len(b)) + 1],
               c[((m \div Len(d)) % Len(c)) + 1],
               d[(m % Len(d)) + 1] >>]

\* lines 129-133
smaller_than(sequence, value) == SelectSeq(sequence, LAMBDA item : item < value)

larger_than(sequence, value) == SelectSeq(sequence, LAMBDA item : item > value)

\* line 135
seq_years == Range(HORIZON_START, HORIZON_END + 5, SEQ_STEP)

\* hist_years with the bound taken at the base year itself
hist_years_to_base == smaller_than(seq_years, BASE_YEAR + 5)

\* line 136
hist_years == smaller_than(seq_years, BASE_YEAR - 5)

\* line 137
fut_years == larger_than(seq_years, LAST_MODEL_YEAR)

\* lines 139-142: the rows of one combination
TechRows(df, cmb) ==
    SelectSeq(df, LAMBDA row :
        /\ row.scenario_version = cmb[1]
        /\ row.scenario = cmb[2]
        /\ row.message_technology = cmb[3]
        /\ row.region = cmb[4])

\* df.query("year == <yr>").assign(year=<as>)
RowsOfYearAs(df, yr, as) ==
    LET sel == SelectSeq(df, LAMBDA row : row.year = yr)
    IN  [n \in 1..Len(sel) |-> [sel[n] EXCEPT !.year = as]]

\* HistRows filled from the last model year's rows
HistRowsFromLast(tech) ==
    [n \in 1..Len(hist_years) |-> RowsOfYearAs(tech, FUT_VALUE_YEAR, hist_years[n])]

\* lines 145-148
HistRows(tech) ==
    [n \in 1..Len(hist_years) |-> RowsOfYearAs(tech, HIST_VALUE_YEAR, hist_years[n])]

\* FutRows filled from the rows of the year the historical years repeat
FutRowsFromHistYear(tech) ==
    [n \in 1..Len(fut_years) |-> RowsOfYearAs(tech, HIST_VALUE_YEAR, fut_years[n])]

\* lines 151-154
FutRows(tech) ==
    [n \in 1..Len(fut_years) |-> RowsOfYearAs(tech, FUT_VALUE_YEAR, fut_years[n])]

\* lines 157-159
CostsTot(tech) == Concat(HistRows(tech)) \o tech \o Concat(FutRows(tech))

\* lines 162-179
TechInv(costs_tot) ==
    [n \in 1..Len(costs_tot) |->
        [scenario_version |-> costs_tot[n].scenario_version,
         scenario |-> costs_tot[n].scenario,
         node_loc |-> costs_tot[n].region,
         technology |-> costs_tot[n].message_technology,
         year_vtg |-> costs_tot[n].year,
         value |-> costs_tot[n].inv_cost,
         unit |-> "USD/kWa"]]

\* A fixed-cost value c * (1 - 0.0025) ** e, kept as the pair (c, e).  With
\* 0 < c < 400 two pairs denote the same real number only if they are equal
\* (0.9975 = 399/400 in lowest terms).
Decayed(c, e) == [c |-> c, e |-> e]

NaN == [c |-> 0, e |-> 0]

\* lines 184-197: the rows vintage y is active in
Fom(costs_tot, y) == SelectSeq(costs_tot, LAMBDA row : row.year >= y)

\* lines 199-202: the rows init_val is read from (its first row's fix_cost)
InitValRows(costs_tot, y) ==
    IF y <= FOM_GIVEN_UNTIL
    THEN SelectSeq(Fom(costs_tot, y), LAMBDA row : row.year = FOM_GIVEN_UNTIL)
    ELSE SelectSeq(Fom(costs_tot, y), LAMBDA row : row.year = y)

\* DecayVal with the exponent counted from the year the cost is given until
DecayValFromGiven(init_val, year, y) ==
    IF year \in y..(DECAY_RANGE_END - 1)
    THEN Decayed(init_val, year - FOM_GIVEN_UNTIL)
    ELSE NaN

\* lines 205-210: column val of the left merge with d, for a row of `year`
DecayVal(init_val, year, y) ==
    IF year \in y..(DECAY_RANGE_END - 1)
    THEN Decayed(init_val, year - y)
    ELSE NaN

\* line 212: np.where(x.year <= 2020, x.fix_cost, x.val)
FomValue(row, init_val, y) ==
    IF row.year <= FOM_GIVEN_UNTIL
    THEN Decayed(row.fix_cost, 0)
    ELSE DecayVal(init_val, row.year, y)

\* FomUpdated with the rows of vintage y not filtered by year
FomUpdatedUnfiltered(costs_tot, y) ==
    LET init_val == InitValRows(costs_tot, y)[1].fix_cost
    IN  [n \in 1..Len(costs_tot) |->
            [scenario_version |-> costs_tot[n].scenario_version,
             scenario |-> costs_tot[n].scenario,
             node_loc |-> costs_tot[n].region,
             technology |-> costs_tot[n].message_technology,
             year_vtg |-> y,
             year_act |-> costs_tot[n].year,
             value |-> FomValue(costs_tot[n], init_val, y),
             unit |-> "USD/kWa"]]

\* lines 183-231: the fixed-cost rows of vintage y
FomUpdated(costs_tot, y) ==
    LET fom == Fom(costs_tot, y)
        init_val == InitValRows(costs_tot, y)[1].fix_cost
    IN  [n \in 1..Len(fom) |->
            [scenario_version |-> fom[n].scenario_version,
             scenario |-> fom[n].scenario,
             node_loc |-> fom[n].region,
             technology |-> fom[n].message_technology,
             year_vtg |-> y,
             year_act |-> fom[n].year,
             value |-> FomValue(fom[n], init_val, y),
             unit |-> "USD/kWa"]]

\* lines 181-235
TechFom(costs_tot) ==
    Concat([n \in 1..Len(seq_years) |-> FomUpdated(costs_tot, seq_years[n])])

\* the loop body raises: pd.concat of an empty list (lines 157-158), or
\* .values[0] of an empty selection (lines 200, 202)
BodyRaises(tech) ==
    \/ hist_years = <<>>
    \/ fut_years = <<>>
    \/ \E n \in 1..Len(seq_years) : InitValRows(CostsTot(tech), seq_years[n]) = <<>>

\* ---- the projections create_message_inputs is called with ----

MaxTech == 2
MaxReg == 2
MaxCost == 3

Technologies == <<"coal_ppl", "solar_pv", "wind_ppl">>
Regions == <<"R12_NAM", "R12_WEU", "R12_CHN">>

\* the time steps of the projected years
TimeSteps == {1, 5, 10}

\* the years a projection covers: the first and the last model year at a step
ProjYears(step) == Range(HIST_VALUE_YEAR, LAST_MODEL_YEAR + 1, step)

\* a projection as get_cost_projections hands it over: for nT technologies
\* and nR regions, one row per year, costs from level c falling over time
Projection(nT, nR, step, c) ==
    LET ys == ProjYears(step)
        nY == Len(ys)
    IN  [n \in 1..(nT * nR * nY) |->
            LET t == ((n - 1) \div (nR * nY)) + 1
                r == (((n - 1) \div nY) % nR) + 1
                y == ys[((n - 1) % nY) + 1]
            IN  [scenario_version |-> "updated",
                 scenario |-> "SSP2",
                 message_technology |-> Technologies[t],
                 region |-> Regions[r],
                 year |-> y,
                 inv_cost |-> c + 100 * t + 200 * r + (LAST_MODEL_YEAR - y),
                 fix_cost |-> c + 10 * t + r + (LAST_MODEL_YEAR - y)]]

ProjInputs ==
    { Projection(nT, nR, step, c) :
        nT \in 1..MaxTech, nR \in 1..MaxReg, step \in TimeSteps, c \in 1..MaxCost }

\* create_message_inputs(df_proj) has been called
InitInputs ==
    /\ mpc = "called"
    /\ df_proj \in ProjInputs
    /\ combos = <<>>
    /\ done = 0
    /\ l_inv = <<>>
    /\ l_fix = <<>>
    /\ msg_inv = <<>>
    /\ msg_fom = <<>>

\* lines 114-126: the unique values of the four key columns and their product
StartLoop ==
    /\ mpc = "called"
    /\ combos' = Product(Unique(Column(df_proj, "scenario_version")),
                         Unique(Column(df_proj, "scenario")),
                         Unique(Column(df_proj, "message_technology")),
                         Unique(Column(df_proj, "region")))
    /\ mpc' = "loop"
    /\ UNCHANGED <<df_proj, done, l_inv, l_fix, msg_inv, msg_fom>>
    /\ UNCHANGED <<projVars, waterVars>>

\* lines 126-238: one iteration of the loop over the combinations
LoopBody ==
    /\ mpc = "loop"
    /\ done < Len(combos)
    /\ LET tech == TechRows(df_proj, combos[done + 1])
           costs_tot == CostsTot(tech)
       IN  /\ ~BodyRaises(tech)
           /\ l_inv' = Append(l_inv, TechInv(costs_tot))
           /\ l_fix' = Append(l_fix, TechFom(costs_tot))
    /\ done' = done + 1
    /\ UNCHANGED <<mpc, df_proj, combos, msg_inv, msg_fom>>
    /\ UNCHANGED <<projVars, waterVars>>

\* an iteration raises and the exception leaves the function
LoopBodyRaises ==
    /\ mpc = "loop"
    /\ done < Len(combos)
    /\ BodyRaises(TechRows(df_proj, combos[done + 1]))
    /\ mpc' = "raised"
    /\ UNCHANGED <<df_proj, combos, done, l_inv, l_fix, msg_inv, msg_fom>>
    /\ UNCHANGED <<projVars, waterVars>>

\* lines 240-243
ReturnInputs ==
    /\ mpc = "loop"
    /\ done = Len(combos)
    /\ msg_inv' = Concat(l_inv)
    /\ msg_fom' = Concat(l_fix)
    /\ mpc' = "returned"
    /\ UNCHANGED <<df_proj, combos, done, l_inv, l_fix>>
    /\ UNCHANGED <<projVars, waterVars>>

-----------------------------------------------------------------------------
(* water add_data *)

\* lines 16-27
DATA_FUNCTIONS ==
    << "add_water_supply", "cool_tech", "non_cooling_tec", "add_sectoral_demands",
       "add_water_availability", "add_irrigation_demand",
       "add_infrastructure_techs", "add_desalination", "add_e_flow",
       "add_irr_structure" >>

\* lines 29-39
DATA_FUNCTIONS_COUNTRY ==
    << "add_water_supply", "cool_tech", "non_cooling_tec", "add_sectoral_demands",
       "add_water_availability", "add_irrigation_demand",
       "add_infrastructure_techs", "add_desalination", "add_e_flow" >>

\* SelectDataFuncs with type_reg tested before nexus_set
SelectDataFuncsTypeRegFirst(ctx) ==
    IF ctx.type_reg = "global" THEN DATA_FUNCTIONS
    ELSE IF ctx.nexus_set = "cooling"
         THEN <<"add_water_supply", "cool_tech", "non_cooling_tec">>
         ELSE DATA_FUNCTIONS_COUNTRY

\* lines 48-54: the conditional expression that picks the list
SelectDataFuncs(ctx) ==
    IF ctx.nexus_set = "cooling"
    THEN <<"add_water_supply", "cool_tech", "non_cooling_tec">>
    ELSE IF ctx.type_reg = "global" THEN DATA_FUNCTIONS
         ELSE DATA_FUNCTIONS_COUNTRY

\* the contexts add_data is called with
NexusSets == {"cooling", "nexus"}
TypeRegs == {"global", "country"}

\* add_data(scenario, context, dry_run) has been called
InitWater ==
    /\ wpc = "called"
    /\ context \in [nexus_set : NexusSets, type_reg : TypeRegs, info : {FALSE}]
    /\ dry_run \in BOOLEAN
    /\ data_funcs = <<>>
    /\ func_calls = <<>>
    /\ scenario = <<>>

\* lines 45-54: store the ScenarioInfo in the context, pick the list
SelectFuncs ==
    /\ wpc = "called"
    /\ context' = [context EXCEPT !.info = TRUE]
    /\ data_funcs' = SelectDataFuncs(context)
    /\ wpc' = "loop"
    /\ UNCHANGED <<dry_run, func_calls, scenario>>
    /\ UNCHANGED <<projVars, inputsVars>>

\* lines 56-59: the next function of the list is called and returns its data
CallFunc ==
    /\ wpc = "loop"
    /\ Len(func_calls) < Len(data_funcs)
    /\ func_calls' = Append(func_calls, data_funcs[Len(func_calls) + 1])
    /\ wpc' = "add"
    /\ UNCHANGED <<context, dry_run, data_funcs, scenario>>
    /\ UNCHANGED <<projVars, inputsVars>>

\* lines 56-59: the next function of the list is called and raises
FuncRaises ==
    /\ wpc = "loop"
    /\ Len(func_calls) < Len(data_funcs)
    /\ func_calls' = Append(func_calls, data_funcs[Len(func_calls) + 1])
    /\ wpc' = "raised"
    /\ UNCHANGED <<context, dry_run, data_funcs, scenario>>
    /\ UNCHANGED <<projVars, inputsVars>>

\* line 59: add_par_data(scenario, <the data>, dry_run=dry_run)
AddParData ==
    /\ wpc = "add"
    /\ scenario' = Append(scenario,
                          [data_of |-> func_calls[Len(func_calls)], dry_run |-> dry_run])
    /\ wpc' = "loop"
    /\ UNCHANGED <<context, dry_run, data_funcs, func_calls>>
    /\ UNCHANGED <<projVars, inputsVars>>

\* line 59: add_par_data raises
AddParDataRaises ==
    /\ wpc = "add"
    /\ wpc' = "raised"
    /\ UNCHANGED <<context, dry_run, data_funcs, func_calls, scenario>>
    /\ UNCHANGED <<projVars, inputsVars>>

\* line 61: the list is exhausted
FinishAddData ==
    /\ wpc = "loop"
    /\ Len(func_calls) = Len(data_funcs)
    /\ wpc' = "done"
    /\ UNCHANGED <<context, dry_run, data_funcs, func_calls, scenario>>
    /\ UNCHANGED <<projVars, inputsVars>>


-----------------------------------------------------------------------------
(* Specifications *)

IdleInputs ==
    /\ mpc = "idle"
    /\ df_proj = <<>>
    /\ combos = <<>>
    /\ done = 0
    /\ l_inv = <<>>
    /\ l_fix = <<>>
    /\ msg_inv = <<>>
    /\ msg_fom = <<>>

IdleWater ==
    /\ wpc = "idle"
    /\ context = [nexus_set |-> "", type_reg |-> "", info |-> FALSE]
    /\ dry_run = FALSE
    /\ data_funcs = <<>>
    /\ func_calls = <<>>
    /\ scenario = <<>>

\* get_cost_projections, called any number of times
Init == InitProj /\ IdleInputs /\ IdleWater

Next ==
    \/ Call
    \/ RejectNode
    \/ AcceptNode
    \/ RunStage
    \/ StageRaises
    \/ Return

Spec == Init /\ [][Next]_vars

\* one call of create_message_inputs
InitMsg == InitProj /\ InitInputs /\ IdleWater

NextMsg ==
    \/ StartLoop
    \/ LoopBody
    \/ LoopBodyRaises
    \/ ReturnInputs

SpecInputs == InitMsg /\ [][NextMsg]_vars

\* one call of add_data
InitAddData == InitProj /\ IdleInputs /\ InitWater

NextWater ==
    \/ SelectFuncs
    \/ CallFunc
    \/ FuncRaises
    \/ AddParData
    \/ AddParDataRaises
    \/ FinishAddData

SpecWater == InitAddData /\ [][NextWater]_vars

-----------------------------------------------------------------------------
(* Properties of get_cost_projections *)

\* the resolutions the entry point supports
SupportedResolutions == { <<"R", "1", "1">>, <<"R", "1", "2">>, <<"R", "2", "0">> }

\* the call in progress was made with an unsupported resolution
UnsupportedCall ==
    pc # "idle" /\ Upper(call_args.sel_node) \notin SupportedResolutions

\* C1: a call whose upper-cased sel_node is not R11, R12 or R20 returns the
\* error string whatever the other arguments are: it never raises, never
\* returns a dataframe, and invokes no stage.
C1_UnsupportedReturnsString ==
    UnsupportedCall =>
        /\ pc \in {"called", "returned"}
        /\ calls = <<>>
        /\ dfs = NoDfs
        /\ pc = "returned" =>
              /\ result.kind = "str"
              /\ result.str = "Please select a valid spatial resolution: R11, R12, or R20"

\* an R99 call with sel_ref_region=None has returned
C1_Witness ==
    /\ pc = "returned"
    /\ call_args.sel_node = <<"R", "9", "9">>
    /\ call_args.sel_ref_region = None
    /\ result.kind = "str"

\* the reference region the claim expects the stages to get
ExpectedRefRegion ==
    IF call_args.sel_ref_region = None
    THEN CASE Upper(call_args.sel_node) = <<"R", "1", "1">> ->
                  <<"R", "1", "1", "_", "N", "A", "M">>
           [] Upper(call_args.sel_node) = <<"R", "1", "2">> ->
                  <<"R", "1", "2", "_", "N", "A", "M">>
           [] Upper(call_args.sel_node) = <<"R", "2", "0">> ->
                  <<"R", "2", "0", "_", "N", "A", "M">>
    ELSE Upper(call_args.sel_ref_region)

\* C2: with a valid resolution, every stage that takes a reference region
\* gets the resolution's default (R11_NAM, R12_NAM, R20_NAM) when
\* sel_ref_region is None, and the upper-cased sel_ref_region otherwise.
C2_ReferenceRegionResolved ==
    \A i \in 1..Len(calls) :
        calls[i].config # <<>> => calls[i].config[2] = ExpectedRefRegion

\* sel_node="R12", sel_ref_region=None: the three stages that take a
\* reference region were called with R12_NAM
C2_Witness ==
    /\ call_args.sel_node = <<"R", "1", "2">>
    /\ call_args.sel_ref_region = None
    /\ Len(calls) >= 3
    /\ \A i \in 1..3 : calls[i].config[2] = <<"R", "1", "2", "_", "N", "A", "M">>

\* the call in progress has finished, and the call before it had the same
\* arguments up to the letter case of sel_node
SameCallUpToCase ==
    /\ pc \in {"returned", "raised"}
    /\ prev.made
    /\ Upper(prev.call_args.sel_node) = Upper(call_args.sel_node)
    /\ prev.call_args.sel_ref_region = call_args.sel_ref_region
    /\ prev.call_args.other = call_args.other

\* C3: two calls whose sel_node differ only in letter case, all other
\* arguments equal, have the same validation outcome, the same resolved
\* reference region and hand the same resolution value to the stages.
C3_CaseInsensitive ==
    SameCallUpToCase =>
        /\ Observation.rejected = prev.rejected
        /\ Observation.refs = prev.refs
        /\ Observation.nodes = prev.nodes

\* the stage order and the dataflow the claim states: each entry names the
\* stages whose outputs the stage is given
ClaimedOrder ==
    << "get_weo_region_differentiated_costs",
       "project_ref_region_inv_costs_using_learning_rates",
       "calculate_gdp_adjusted_region_cost_ratios",
       "project_all_inv_costs",
       "get_final_inv_and_fom_costs" >>

ClaimedInputs == << <<>>, <<1>>, <<1>>, <<1, 2, 3>>, <<4>> >>

OutputOf(i) == [producer |-> ClaimedOrder[i], seq |-> i]

\* C8: on a valid resolution the stages are invoked in the order
\* differentiator, learning-rate projector, GDP-ratio adjuster, spline
\* blender, final formatter, none twice, each given only outputs of stages
\* that completed before it; a call that returns has invoked all five and
\* returns the final formatter's output.
C8_PipelineOrder ==
    /\ Len(calls) <= Len(ClaimedOrder)
    /\ \A i \in 1..Len(calls) :
          /\ calls[i].stage = ClaimedOrder[i]
          /\ calls[i].inputs =
                [k \in 1..Len(ClaimedInputs[i]) |-> OutputOf(ClaimedInputs[i][k])]
    /\ (pc = "returned" /\ Upper(call_args.sel_node) \in SupportedResolutions) =>
          /\ Len(calls) = Len(ClaimedOrder)
          /\ result.kind = "DataFrame"
          /\ result.df = OutputOf(Len(ClaimedOrder))

\* a call on a valid resolution has returned after its five stages
C8_Witness ==
    /\ pc = "returned"
    /\ result.kind = "DataFrame"
    /\ Len(calls) = 5

-----------------------------------------------------------------------------
(* Properties of create_message_inputs *)

\* the (scenario_version, scenario, technology, region) combinations of the
\* projections
InputCombos ==
    { <<df_proj[n].scenario_version, df_proj[n].scenario,
        df_proj[n].message_technology, df_proj[n].region>> : n \in 1..Len(df_proj) }

KeyOf(row) == <<row.scenario_version, row.scenario, row.technology, row.node_loc>>

\* the investment-cost values a combination has at a vintage year
InvValuesAt(cmb, y) ==
    { msg_inv[n].value :
        n \in { m \in 1..Len(msg_inv) :
                  KeyOf(msg_inv[m]) = cmb /\ msg_inv[m].year_vtg = y } }

\* the values of a cost column the projections give a combination at a year
InputValuesAt(cmb, y, col) ==
    { df_proj[n][col] :
        n \in { m \in 1..Len(df_proj) :
                  /\ <<df_proj[m].scenario_version, df_proj[m].scenario,
                       df_proj[m].message_technology, df_proj[m].region>> = cmb
                  /\ df_proj[m].year = y } }

\* the years of the investment-cost records of a combination
YearAxis(cmb) ==
    { msg_inv[n].year_vtg : n \in { m \in 1..Len(msg_inv) : KeyOf(msg_inv[m]) = cmb } }

\* 1960, 1965, ..., 2110
HorizonGrid == { y \in 1960..2110 : y % 5 = 0 }

\* C4: in the returned investment costs, every record of a year before
\* BASE_YEAR carries the value its combination has at the anchor year 2020.
C4_HistoricalYearsRepeat2020 ==
    mpc = "returned" =>
        \A n \in 1..Len(msg_inv) :
            msg_inv[n].year_vtg < BASE_YEAR =>
                /\ InputValuesAt(KeyOf(msg_inv[n]), 2020, "inv_cost") = {msg_inv[n].value}
                /\ InvValuesAt(KeyOf(msg_inv[n]), 2020) = {msg_inv[n].value}

\* returned investment costs hold a 1990 record with the 2020 value, which
\* differs from the combination's 2025 value
C4_Witness ==
    /\ mpc = "returned"
    /\ \E n \in 1..Len(msg_inv) :
          /\ msg_inv[n].year_vtg = 1990
          /\ InvValuesAt(KeyOf(msg_inv[n]), 2020) = {msg_inv[n].value}
          /\ msg_inv[n].value \notin InvValuesAt(KeyOf(msg_inv[n]), 2025)

\* C5: in the returned investment costs, every combination has a record for
\* each 5-year grid year after LAST_MODEL_YEAR up to 2110 (2105 and 2110),
\* carrying its value at 2100, and no record has a year beyond 2110.
C5_FutureYearsRepeat2100 ==
    mpc = "returned" =>
        /\ \A cmb \in InputCombos :
              \A y \in { z \in (LAST_MODEL_YEAR + 1)..2110 : z % 5 = 0 } :
                  /\ InvValuesAt(cmb, y) # {}
                  /\ InvValuesAt(cmb, y) = InputValuesAt(cmb, 2100, "inv_cost")
                  /\ InvValuesAt(cmb, y) = InvValuesAt(cmb, 2100)
        /\ \A n \in 1..Len(msg_inv) : msg_inv[n].year_vtg <= 2110

\* returned investment costs hold a 2110 record with the 2100 value, which
\* differs from the combination's 2095 value
C5_Witness ==
    /\ mpc = "returned"
    /\ \E n \in 1..Len(msg_inv) :
          /\ msg_inv[n].year_vtg = 2110
          /\ InvValuesAt(KeyOf(msg_inv[n]), 2100) = {msg_inv[n].value}
          /\ msg_inv[n].value \notin InvValuesAt(KeyOf(msg_inv[n]), 2095)

\* the projections cover 2020 through 2100 at 5-year steps, one row a year
FiveYearProjections ==
    \A cmb \in InputCombos :
        \A y \in 2020..2100 :
            Cardinality({ m \in 1..Len(df_proj) :
                /\ <<df_proj[m].scenario_version, df_proj[m].scenario,
                     df_proj[m].message_technology, df_proj[m].region>> = cmb
                /\ df_proj[m].year = y }) = (IF y % 5 = 0 THEN 1 ELSE 0)

\* C7: given projections that cover 2020 through 2100 at 5-year steps, the
\* returned investment costs hold, for every combination, exactly one record
\* for each of the years 1960, 1965, ..., 2110 and no other record.
C7_YearAxisContiguous ==
    (mpc = "returned" /\ FiveYearProjections) =>
        /\ \A cmb \in InputCombos :
              \A y \in HorizonGrid :
                  Cardinality({ m \in 1..Len(msg_inv) :
                      KeyOf(msg_inv[m]) = cmb /\ msg_inv[m].year_vtg = y }) = 1
        /\ \A n \in 1..Len(msg_inv) :
              /\ msg_inv[n].year_vtg \in HorizonGrid
              /\ KeyOf(msg_inv[n]) \in InputCombos

\* returned investment costs of 5-year projections with two technologies
C7_Witness ==
    /\ mpc = "returned"
    /\ FiveYearProjections
    /\ Cardinality(InputCombos) >= 2
    /\ Len(msg_inv) = 31 * Cardinality(InputCombos)

\* the fixed cost the projections give a combination at a year, the years
\* after 2100 repeating 2100
GivenFixCost(cmb, y) ==
    InputValuesAt(cmb, IF y > 2100 THEN 2100 ELSE y, "fix_cost")

\* the year the claim calls the base year: the last year of the axis that is
\* not after BASE_YEAR
ClaimBaseYear(cmb) ==
    CHOOSE b \in YearAxis(cmb) :
        b <= BASE_YEAR /\ \A y \in YearAxis(cmb) : y <= BASE_YEAR => y <= b

C9_ActivityNotBeforeVintage ==
    mpc = "returned" =>
        \A ic \in { InputCombos } :
            /\ \A n \in 1..Len(msg_fom) :
                  /\ msg_fom[n].year_act >= msg_fom[n].year_vtg
                  /\ KeyOf(msg_fom[n]) \in ic
            /\ \A cmb \in ic :
                  \A axis \in { YearAxis(cmb) } :
                  \A rows \in { { n \in 1..Len(msg_fom) : KeyOf(msg_fom[n]) = cmb } } :
                  \A pairs \in { { <<msg_fom[n].year_vtg, msg_fom[n].year_act>> : n \in rows } } :
                      /\ pairs = UNION { { <<v, a>> : a \in { z \in axis : z >= v } } :
                                          v \in HorizonGrid }
                      /\ Cardinality(pairs) = Cardinality(rows)

\* returned fixed costs hold records of vintage 2050, among them the one
\* active in 2050, and the year axis has years before 2050
C9_Witness ==
    /\ mpc = "returned"
    /\ \E n \in 1..Len(msg_fom) :
          /\ msg_fom[n].year_vtg = 2050
          /\ msg_fom[n].year_act = 2050
          /\ 2045 \in YearAxis(KeyOf(msg_fom[n]))

-----------------------------------------------------------------------------
(* Properties of add_data *)

\* the list the claim says add_data selects
ClaimedDataFuncs ==
    IF context.nexus_set = "cooling"
    THEN <<"add_water_supply", "cool_tech", "non_cooling_tec">>
    ELSE IF context.type_reg = "global"
         THEN << "add_water_supply", "cool_tech", "non_cooling_tec",
                 "add_sectoral_demands", "add_water_availability",
                 "add_irrigation_demand", "add_infrastructure_techs",
                 "add_desalination", "add_e_flow", "add_irr_structure" >>
         ELSE << "add_water_supply", "cool_tech", "non_cooling_tec",
                 "add_sectoral_demands", "add_water_availability",
                 "add_irrigation_demand", "add_infrastructure_techs",
                 "add_desalination", "add_e_flow" >>

\* C10: add_data selects the cooling list when nexus_set is "cooling",
\* otherwise DATA_FUNCTIONS when type_reg is "global", otherwise
\* DATA_FUNCTIONS_COUNTRY; it calls the functions of the list in order, each
\* once, and adds each result to the scenario with the caller's dry_run
\* before the next function is called; after a failure the results of the
\* functions before the failing one are in the scenario and nothing more
\* runs.
C10_SequentialDataFunctions ==
    wpc # "called" =>
        /\ data_funcs = ClaimedDataFuncs
        /\ Len(func_calls) <= Len(ClaimedDataFuncs)
        /\ func_calls = SubSeq(ClaimedDataFuncs, 1, Len(func_calls))
        /\ scenario = [i \in 1..Len(scenario) |->
                          [data_of |-> ClaimedDataFuncs[i], dry_run |-> dry_run]]
        /\ wpc = "loop" => Len(scenario) = Len(func_calls)
        /\ wpc = "add" => Len(scenario) = Len(func_calls) - 1
        /\ wpc = "done" =>
              Len(scenario) = Len(ClaimedDataFuncs) /\ func_calls = ClaimedDataFuncs
        /\ wpc = "raised" =>
              /\ Len(scenario) = Len(func_calls) - 1
              /\ ~ENABLED NextWater

\* a country-level nexus run failed in add_e_flow with the data of the eight
\* functions before it added
C10_Witness ==
    /\ wpc = "raised"
    /\ context.nexus_set = "nexus"
    /\ context.type_reg = "country"
    /\ Len(func_calls) = 9
    /\ Len(scenario) = 8

====
